---- MODULE Spec2Model ----
(***************************************************************************)
(* A model of ssdutils.py (SSD-TensorFlow): the anchor generator           *)
(* get_anchors_for_preset, the overlap calculator jaccard_overlap and the  *)
(* matcher compute_overlap.                                                *)
(*                                                                         *)
(* Real numbers.  Every real the three functions compute is a rational     *)
(* number or the square root of one.  A rational is the pair <<n, d>> in   *)
(* lowest terms with d > 0, so that equality of pairs is equality of       *)
(* values.  A width or height of an anchor, s*sqrt(r) or s/sqrt(r) or      *)
(* sqrt(s*s'), is the non-negative root of a rational and is kept as       *)
(* Root(q) = <<"sqrt", q>>.  The quotients the code compares (overlaps of  *)
(* boxes with integer corners below 2^11) are far enough apart for IEEE    *)
(* doubles to order them as the rationals are ordered.                     *)
(***************************************************************************)
EXTENDS Integers, Sequences, FiniteSets, TLC

VARIABLES
    \* get_anchors_for_preset
    preset, apc, scales, box_sizes, anchors, k,
    \* jaccard_overlap
    params1, params2, jpc, jresult,
    \* compute_overlap
    box, manchors, threshold, mpc, mi, best, good

vars == <<preset, apc, scales, box_sizes, anchors, k,
          params1, params2, jpc, jresult,
          box, manchors, threshold, mpc, mi, best, good>>

avars == <<preset, apc, scales, box_sizes, anchors, k>>
jvars == <<params1, params2, jpc, jresult>>
mvars == <<box, manchors, threshold, mpc, mi, best, good>>

-----------------------------------------------------------------------------
(* Bounds of the model *)

\* test presets have at most this many feature maps
MaxTestMaps == 3
\* and grids of at most this size
MaxTestGrid == 2
\* corners of the boxes given to jaccard_overlap lie in 0..MaxCoord
MaxCoord == 3
\* compute_overlap is given at most this many anchors
MaxAnchors == 3

-----------------------------------------------------------------------------
(* Arithmetic *)

Abs(n) == IF n < 0 THEN -n ELSE n

RECURSIVE GCD(_, _)
GCD(a, b) == IF b = 0 THEN a ELSE GCD(b, a % b)

\* the rational n/d, d # 0, in lowest terms with a positive denominator
Rat(n, d) ==
    LET g == GCD(Abs(n), Abs(d))
        s == IF d < 0 THEN -1 ELSE 1
    IN  <<(s * n) \div g, (s * d) \div g>>

RatInt(n)    == <<n, 1>>
RatAdd(p, q) == Rat(p[1] * q[2] + q[1] * p[2], p[2] * q[2])
RatSub(p, q) == Rat(p[1] * q[2] - q[1] * p[2], p[2] * q[2])
RatMul(p, q) == Rat(p[1] * q[1], p[2] * q[2])
RatDiv(p, q) == Rat(p[1] * q[2], p[2] * q[1])
RatLess(p, q) == p[1] * q[2] < q[1] * p[2]
RatLeq(p, q)  == p[1] * q[2] <= q[1] * p[2]

\* sqrt(q) for a rational q >= 0
Root(q) == <<"sqrt", q>>

-----------------------------------------------------------------------------
(* Value types (namedtuples) *)

Size(w, h)  == [w |-> w, h |-> h]
Point(x, y) == [x |-> x, y |-> y]

SSDPreset(image_size, num_maps, map_sizes, num_anchors) ==
    [image_size |-> image_size, num_maps |-> num_maps,
     map_sizes |-> map_sizes, num_anchors |-> num_anchors]

Anchor(center, size, x, y, scale, map) ==
    [center |-> center, size |-> size, x |-> x, y |-> y,
     scale |-> scale, map |-> map]

SSD_PRESETS ==
    [vgg300 |-> SSDPreset(Size(300, 300), 6,
                          <<Size(38, 38), Size(19, 19), Size(10, 10),
                            Size(5, 5), Size(3, 3), Size(1, 1)>>, 11639),
     vgg500 |-> SSDPreset(Size(500, 500), 6,
                          <<Size(63, 63), Size(32, 32), Size(16, 16),
                            Size(8, 8), Size(6, 6), Size(4, 4)>>, 32174)]

SCALE_MIN  == Rat(2, 10)
SCALE_MAX  == Rat(9, 10)
SCALE_DIFF == RatSub(SCALE_MAX, SCALE_MIN)

\* the presets a caller passes: the registered ones and small test presets
\* (square grids, num_maps = len(map_sizes), no declared anchor count)
RegisteredPresets == {SSD_PRESETS[n] : n \in DOMAIN SSD_PRESETS}

TestPresets ==
    { SSDPreset(Size(300, 300), n, [m \in 1..n |-> Size(g[m], g[m])], 0) :
        n \in 0..MaxTestMaps, g \in [1..MaxTestMaps -> 0..MaxTestGrid] }

Presets == RegisteredPresets \cup TestPresets

-----------------------------------------------------------------------------
(* get_anchors_for_preset *)

\* Python's k-th element of a list, k counted from 0
At(seq, n) == seq[n + 1]

\* aspect_ratios before the map(sqrt): the square root is taken by Root below
aspect_ratios == <<RatInt(1), RatInt(2), RatInt(3), Rat(1, 2), Rat(1, 3)>>

\* (w, h) = (s * sqrt(ratio), s / sqrt(ratio))
RatioBox(s, ratio) ==
    <<Root(RatMul(RatMul(s, s), ratio)), Root(RatDiv(RatMul(s, s), ratio))>>

\* (s_prime, s_prime), s_prime = sqrt(s * s_next)
ExtraBox(s, s_next) ==
    <<Root(RatMul(s, s_next)), Root(RatMul(s, s_next))>>

\* mutant of BoxSizesFor: the extra square box is never added
BoxSizesForNoExtra(scs, n) ==
    [r \in 1..Len(aspect_ratios) |-> RatioBox(At(scs, n), aspect_ratios[r])]

\* the list box_sizes[s] built by one pass of the loop over the scales
BoxSizesFor(scs, n) ==
    LET s     == At(scs, n)
        ratio == [r \in 1..Len(aspect_ratios) |-> RatioBox(s, aspect_ratios[r])]
    IN  IF n < Len(scs) - 1
        THEN Append(ratio, ExtraBox(At(scs, n), At(scs, n + 1)))
        ELSE ratio

\* x = (i+0.5)/float(fk)
CellCoord(n, fk) == Rat(2 * n + 1, 2 * fk)

\* the anchor appended for row-loop value ii, column-loop value j and a size
MakeAnchor(ii, j, fk, size, s, kk) ==
    Anchor(Point(CellCoord(ii, fk), CellCoord(j, fk)),
           Size(size[1], size[2]), j, ii, s, kk)

\* mutant of LevelAnchors: the loop over the sizes outside the loop over j
LevelAnchorsSizeMajor(fk, sizes, s, kk) ==
    LET n == Len(sizes)
    IN  [p \in 1..(fk * fk * n) |->
            MakeAnchor((p - 1) \div (fk * n), (p - 1) % fk, fk,
                       sizes[(((p - 1) \div fk) % n) + 1], s, kk)]

\* the anchors appended by one pass of the loop `for k in range(len(scales))':
\* for i in range(fk), for j in range(fk), for size in box_sizes[s]
LevelAnchors(fk, sizes, s, kk) ==
    LET n == Len(sizes)
    IN  [p \in 1..(fk * fk * n) |->
            MakeAnchor((p - 1) \div (fk * n), ((p - 1) \div n) % fk, fk,
                       sizes[((p - 1) % n) + 1], s, kk)]

\* one pass of `for k in range(1, preset.num_maps+1)'
ScaleStep ==
    /\ apc = "scales"
    /\ k <= preset.num_maps
    /\ IF preset.num_maps - 1 = 0
       THEN /\ apc' = "ZeroDivisionError"
            /\ UNCHANGED <<scales, k>>
       ELSE /\ scales' = Append(scales,
                   RatAdd(SCALE_MIN,
                          RatMul(RatDiv(SCALE_DIFF, RatInt(preset.num_maps - 1)),
                                 RatInt(k - 1))))
            /\ k' = k + 1
            /\ apc' = apc
    /\ UNCHANGED <<preset, box_sizes, anchors, jvars, mvars>>

ScalesDone ==
    /\ apc = "scales"
    /\ k > preset.num_maps
    /\ apc' = "box_sizes"
    /\ k' = 0
    /\ UNCHANGED <<preset, scales, box_sizes, anchors, jvars, mvars>>

\* one pass of `for i in range(len(scales))': box_sizes is a dict keyed by s
BoxSizesStep ==
    /\ apc = "box_sizes"
    /\ k < Len(scales)
    /\ box_sizes' = [s \in DOMAIN box_sizes \cup {At(scales, k)} |->
                        IF s = At(scales, k) THEN BoxSizesFor(scales, k)
                        ELSE box_sizes[s]]
    /\ k' = k + 1
    /\ UNCHANGED <<preset, apc, scales, anchors, jvars, mvars>>

BoxSizesDone ==
    /\ apc = "box_sizes"
    /\ k >= Len(scales)
    /\ apc' = "anchors"
    /\ k' = 0
    /\ UNCHANGED <<preset, scales, box_sizes, anchors, jvars, mvars>>

\* all the anchors of levels 0..n-1, in the order the loop appends them
RECURSIVE AllAnchors(_, _, _, _)
AllAnchors(ps, scs, bs, n) ==
    IF n = 0 THEN <<>>
    ELSE AllAnchors(ps, scs, bs, n - 1)
         \o LevelAnchors(At(ps.map_sizes, n - 1).w, bs[At(scs, n - 1)],
                         At(scs, n - 1), n - 1)

\* the loop `for k in range(len(scales))', its three inner loops included
AnchorsLoop ==
    /\ apc = "anchors"
    /\ k < Len(scales)
    /\ anchors' = anchors \o AllAnchors(preset, scales, box_sizes, Len(scales))
    /\ k' = Len(scales)
    /\ UNCHANGED <<preset, apc, scales, box_sizes, jvars, mvars>>

AReturn ==
    /\ apc = "anchors"
    /\ k >= Len(scales)
    /\ apc' = "done"
    /\ UNCHANGED <<preset, scales, box_sizes, anchors, k, jvars, mvars>>

ANext ==
    \/ ScaleStep
    \/ ScalesDone
    \/ BoxSizesStep
    \/ BoxSizesDone
    \/ AnchorsLoop
    \/ AReturn

-----------------------------------------------------------------------------
(* jaccard_overlap *)

None    == <<>>
Some(v) == <<v>>

Max(a, b) == IF a >= b THEN a ELSE b
Min(a, b) == IF a <= b THEN a ELSE b

\* mutant of EarlyZero: the second early return is missing
EarlyZeroThreeChecks(p1, p2) ==
    \/ p2.xmax <= p1.xmin
    \/ p2.ymax <= p1.ymin
    \/ p1.ymax <= p2.ymin

\* one of the four early returns is taken
EarlyZero(p1, p2) ==
    \/ p2.xmax <= p1.xmin
    \/ p1.xmax <= p2.xmin
    \/ p2.ymax <= p1.ymin
    \/ p1.ymax <= p2.ymin

Intersection(p1, p2) ==
    LET xmin == Max(p1.xmin, p2.xmin)
        xmax == Min(p1.xmax, p2.xmax)
        ymin == Max(p1.ymin, p2.ymin)
        ymax == Min(p1.ymax, p2.ymax)
        w    == xmax - xmin
        h    == ymax - ymin
    IN  w * h

Union(p1, p2) ==
    LET w1 == p1.xmax - p1.xmin
        h1 == p1.ymax - p1.ymin
        w2 == p2.xmax - p2.xmin
        h2 == p2.ymax - p2.ymin
    IN  w1 * h1 + w2 * h2 - Intersection(p1, p2)

\* what a call does: it returns a value or raises ZeroDivisionError
JaccardOverlap(p1, p2) ==
    IF EarlyZero(p1, p2) THEN [raised |-> FALSE, value |-> RatInt(0)]
    ELSE IF Union(p1, p2) = 0 THEN [raised |-> TRUE, value |-> RatInt(0)]
    ELSE [raised |-> FALSE, value |-> Rat(Intersection(p1, p2), Union(p1, p2))]

\* (xmin, xmax, ymin, ymax)
Params(xmin, xmax, ymin, ymax) ==
    [xmin |-> xmin, xmax |-> xmax, ymin |-> ymin, ymax |-> ymax]

\* the boxes a caller passes, malformed ones (max < min) included
ParamsSet ==
    { Params(a, b, c, d) : a \in 0..MaxCoord, b \in 0..MaxCoord,
                           c \in 0..MaxCoord, d \in 0..MaxCoord }

\* `return 0'
JReturnZero ==
    /\ jpc = "call"
    /\ EarlyZero(params1, params2)
    /\ jpc' = "returned"
    /\ jresult' = Some(JaccardOverlap(params1, params2).value)
    /\ UNCHANGED <<params1, params2, avars, mvars>>

\* `return intersection/union'
JReturnQuotient ==
    /\ jpc = "call"
    /\ ~EarlyZero(params1, params2)
    /\ ~JaccardOverlap(params1, params2).raised
    /\ jpc' = "returned"
    /\ jresult' = Some(JaccardOverlap(params1, params2).value)
    /\ UNCHANGED <<params1, params2, avars, mvars>>

\* intersection/union with union = 0.0
JRaise ==
    /\ jpc = "call"
    /\ JaccardOverlap(params1, params2).raised
    /\ jpc' = "ZeroDivisionError"
    /\ jresult' = None
    /\ UNCHANGED <<params1, params2, avars, mvars>>

JNext ==
    \/ JReturnZero
    \/ JReturnQuotient
    \/ JRaise

-----------------------------------------------------------------------------
(* compute_overlap *)

Score(idx, score) == [idx |-> idx, score |-> score]

\* int(q): truncation towards zero
Trunc(q) == IF q[1] >= 0 THEN q[1] \div q[2] ELSE -((-q[1]) \div q[2])

\* utils.prop2abs: a box given by its proportional centre and size as
\* (xmin, xmax, ymin, ymax) in pixels of an image of size imgsize
prop2abs(center, size, imgsize) ==
    LET width2  == RatDiv(RatMul(size.w, RatInt(imgsize.w)), RatInt(2))
        height2 == RatDiv(RatMul(size.h, RatInt(imgsize.h)), RatInt(2))
        cx      == RatMul(center.x, RatInt(imgsize.w))
        cy      == RatMul(center.y, RatInt(imgsize.h))
    IN  Params(Trunc(RatSub(cx, width2)), Trunc(RatAdd(cx, width2)),
               Trunc(RatSub(cy, height2)), Trunc(RatAdd(cy, height2)))

imgsize == Size(1000, 1000)

\* jaccard_overlap(bparams, aparams) for anchor i (counted from 0)
JaccardOf(b, as, n) ==
    JaccardOverlap(prop2abs(b.center, b.size, imgsize),
                   prop2abs(At(as, n).center, At(as, n).size, imgsize))

\* mutant of BetterThanBest: an equal score replaces the best
BetterOrEqualToBest(bst, jaccard) ==
    \/ bst = None
    \/ RatLeq(bst[1].score, jaccard)

\* mutant of BetterThanBest: the first match is never replaced
FirstIsBest(bst, jaccard) == bst = None

\* `not best or best.score < jaccard'
BetterThanBest(bst, jaccard) ==
    \/ bst = None
    \/ RatLess(bst[1].score, jaccard)

\* mutant of AboveThreshold: a score equal to the threshold is good
AtOrAboveThreshold(jaccard, thr) == RatLeq(thr, jaccard)

\* `jaccard > threshold'
AboveThreshold(jaccard, thr) == RatLess(thr, jaccard)

\* what the caller passes: a box or anchor is a centre and a size, both
\* proportional to the image
PropBox(cx, cy, w, h) == [center |-> Point(cx, cy), size |-> Size(w, h)]

AnchorBoxes ==
    { PropBox(cx, Rat(1, 2), Rat(1, 2), RatInt(1)) :
        cx \in {Rat(1, 4), Rat(1, 2), Rat(3, 4)} }
    \cup { PropBox(Rat(1, 2), Rat(1, 2), RatInt(0), RatInt(1)) }
    \cup { PropBox(cx, Rat(1, 2), Rat(1, 2), RatInt(0)) :
             cx \in {Rat(1, 4), Rat(1, 2)} }

GroundTruthBoxes ==
    { PropBox(Rat(1, 2), Rat(1, 2), sz[1], sz[2]) :
        sz \in {<<Rat(1, 2), RatInt(1)>>, <<RatInt(0), RatInt(1)>>,
                <<RatInt(1), RatInt(1)>>} }

Thresholds == {Rat(-1, 2), RatInt(0), Rat(1, 3), Rat(1, 2)}

AnchorLists == UNION { [1..n -> AnchorBoxes] : n \in 0..MaxAnchors }

\* jaccard_overlap raises inside the loop
MRaise ==
    /\ mpc = "loop"
    /\ mi < Len(manchors)
    /\ JaccardOf(box, manchors, mi).raised
    /\ mpc' = "ZeroDivisionError"
    /\ UNCHANGED <<box, manchors, threshold, mi, best, good, avars, jvars>>

\* one pass of `for i in range(len(anchors))'
MIterate ==
    /\ mpc = "loop"
    /\ mi < Len(manchors)
    /\ ~JaccardOf(box, manchors, mi).raised
    /\ LET jaccard == JaccardOf(box, manchors, mi).value
       IN  IF jaccard = RatInt(0)
           THEN UNCHANGED <<best, good>>
           ELSE /\ best' = IF BetterThanBest(best, jaccard)
                           THEN Some(Score(mi, jaccard))
                           ELSE best
                /\ good' = IF AboveThreshold(jaccard, threshold)
                           THEN Append(good, Score(mi, jaccard))
                           ELSE good
    /\ mi' = mi + 1
    /\ UNCHANGED <<box, manchors, threshold, mpc, avars, jvars>>

\* `return Overlap(best, good)'
MReturn ==
    /\ mpc = "loop"
    /\ mi >= Len(manchors)
    /\ mpc' = "returned"
    /\ UNCHANGED <<box, manchors, threshold, mi, best, good, avars, jvars>>

MNext ==
    \/ MRaise
    \/ MIterate
    \/ MReturn

-----------------------------------------------------------------------------
(* Specifications: one per function; the variables of the other two rest *)

AnchorsInit ==
    /\ preset \in Presets
    /\ apc = "scales"
    /\ scales = <<>>
    /\ box_sizes = <<>>
    /\ anchors = <<>>
    /\ k = 1
    /\ params1 = Params(0, 0, 0, 0)
    /\ params2 = Params(0, 0, 0, 0)
    /\ jpc = "idle"
    /\ jresult = None
    /\ box = PropBox(RatInt(0), RatInt(0), RatInt(0), RatInt(0))
    /\ manchors = <<>>
    /\ threshold = RatInt(0)
    /\ mpc = "idle"
    /\ mi = 0
    /\ best = None
    /\ good = <<>>

JaccardInit ==
    /\ preset = SSD_PRESETS.vgg300
    /\ apc = "idle"
    /\ scales = <<>>
    /\ box_sizes = <<>>
    /\ anchors = <<>>
    /\ k = 0
    /\ params1 \in ParamsSet
    /\ params2 \in ParamsSet
    /\ jpc = "call"
    /\ jresult = None
    /\ box = PropBox(RatInt(0), RatInt(0), RatInt(0), RatInt(0))
    /\ manchors = <<>>
    /\ threshold = RatInt(0)
    /\ mpc = "idle"
    /\ mi = 0
    /\ best = None
    /\ good = <<>>

MatchInit ==
    /\ preset = SSD_PRESETS.vgg300
    /\ apc = "idle"
    /\ scales = <<>>
    /\ box_sizes = <<>>
    /\ anchors = <<>>
    /\ k = 0
    /\ params1 = Params(0, 0, 0, 0)
    /\ params2 = Params(0, 0, 0, 0)
    /\ jpc = "idle"
    /\ jresult = None
    /\ box \in GroundTruthBoxes
    /\ manchors \in AnchorLists
    /\ threshold \in Thresholds
    /\ mpc = "loop"
    /\ mi = 0
    /\ best = None
    /\ good = <<>>

AnchorsSpec == AnchorsInit /\ [][ANext]_vars
JaccardSpec == JaccardInit /\ [][JNext]_vars
MatchSpec   == MatchInit /\ [][MNext]_vars

Init == AnchorsInit \/ JaccardInit \/ MatchInit
Next == ANext \/ JNext \/ MNext
Spec == Init /\ [][Next]_vars

-----------------------------------------------------------------------------
(* Claims about get_anchors_for_preset (AnchorsSpec) *)

\* the grid size of the feature map an anchor belongs to
GridOf(a) == At(preset.map_sizes, a.map).w

\* (n + 0.5)/f
HalfCell(n, f) == Rat(2 * n + 1, 2 * f)

\* C1: for every anchor produced, center.x = (anchor.x + 0.5)/f and
\* center.y = (anchor.y + 0.5)/f, f the grid size of the anchor's feature
\* map: the centre is tied to the anchor's own column and row, untransposed.
C1_CenterFollowsGridFields ==
    \A p \in 1..Len(anchors) :
        /\ anchors[p].center.x = HalfCell(anchors[p].x, GridOf(anchors[p]))
        /\ anchors[p].center.y = HalfCell(anchors[p].y, GridOf(anchors[p]))

\* number of anchors of a preset: f*f*6 per level, f*f*5 on the last
RECURSIVE ShapeSum(_, _)
ShapeSum(ps, n) ==
    IF n = 0 THEN 0
    ELSE ShapeSum(ps, n - 1)
         + ps.map_sizes[n].w * ps.map_sizes[n].w * (IF n = ps.num_maps THEN 5 ELSE 6)

\* C2: for every registered preset the number of anchors returned equals the
\* declared num_anchors (11639 for vgg300, 32174 for vgg500), which is the
\* sum over the levels of f*f*6, with 5 on the last level.
C2_DeclaredCount ==
    apc = "done" =>
        /\ Len(anchors) = ShapeSum(preset, preset.num_maps)
        /\ preset \in RegisteredPresets => Len(anchors) = preset.num_anchors
        /\ preset = SSD_PRESETS.vgg300 => Len(anchors) = 11639
        /\ preset = SSD_PRESETS.vgg500 => Len(anchors) = 32174

C2_Witness ==
    /\ apc = "done"
    /\ preset = SSD_PRESETS.vgg300
    /\ Len(anchors) = 11639
    /\ Len(anchors) = preset.num_anchors

\* (map, y, x) of an anchor, and the lexicographic order on such triples
CellOf(a) == <<a.map, a.y, a.x>>
CellLeq(c, d) ==
    \/ c[1] < d[1]
    \/ c[1] = d[1] /\ c[2] < d[2]
    \/ c[1] = d[1] /\ c[2] = d[2] /\ c[3] <= d[3]

\* first position of the run of anchors of p's cell
RECURSIVE RunStart(_)
RunStart(p) ==
    IF p > 1 /\ CellOf(anchors[p - 1]) = CellOf(anchors[p])
    THEN RunStart(p - 1) ELSE p

\* (w/h)^2 of a size whose sides are roots
AspectSquared(size) == RatDiv(size.w[2], size.h[2])

ListedRatios == <<RatInt(1), RatInt(2), RatInt(3), Rat(1, 2), Rat(1, 3)>>

\* the q-th anchor of a cell has the q-th shape: aspect ratio ListedRatios[q]
\* for q <= 5, and the extra square (not the scale's own square) for q = 6
ShapeInOrder(a, q) ==
    IF q <= 5
    THEN AspectSquared(a.size) = RatMul(ListedRatios[q], ListedRatios[q])
    ELSE /\ q = 6
         /\ a.size.w = a.size.h
         /\ a.size.w # Root(RatMul(a.scale, a.scale))

\* C3: the returned sequence is in the fixed nested order: (map, y, x) is
\* lexicographically non-decreasing along the sequence, and the anchors of
\* one cell appear in the order of the shape list (ratios 1, 2, 3, 1/2, 1/3,
\* then the extra square).
C3_NestedOrder ==
    apc = "done" =>
        /\ \A p \in 1..(Len(anchors) - 1) :
              CellLeq(CellOf(anchors[p]), CellOf(anchors[p + 1]))
        /\ \A p \in 1..Len(anchors) :
              ShapeInOrder(anchors[p], p - RunStart(p) + 1)

C3_Witness ==
    /\ apc = "done"
    /\ Len(anchors) >= 11
    /\ \E p \in 1..(Len(anchors) - 1) :
          /\ anchors[p].map = anchors[p + 1].map
          /\ anchors[p].y < anchors[p + 1].y
    /\ \E p \in 1..(Len(anchors) - 1) :
          /\ CellOf(anchors[p]) = CellOf(anchors[p + 1])
          /\ p - RunStart(p) + 1 = 5

\* C9: with num_maps = 1 the call does not fail: the single level gets the
\* scale SCALE_MIN and the anchors of that level are returned, 5 per cell.
C9_SingleMapReturns ==
    (preset.num_maps = 1 /\ apc \in {"done", "ZeroDivisionError"}) =>
        /\ apc = "done"
        /\ Len(anchors) = 5 * preset.map_sizes[1].w * preset.map_sizes[1].w
        /\ \A p \in 1..Len(anchors) : anchors[p].scale = SCALE_MIN

-----------------------------------------------------------------------------
(* Claims about jaccard_overlap (JaccardSpec) *)

Finished == jpc \in {"returned", "ZeroDivisionError"}

\* C6: jaccard_overlap(A, B) and jaccard_overlap(B, A) have the same
\* outcome: the same value, or both fail.
C6_Symmetric ==
    Finished =>
        LET swapped == JaccardOverlap(params2, params1)
        IN  /\ (jpc = "ZeroDivisionError") <=> swapped.raised
            /\ jpc = "returned" => jresult = Some(swapped.value)

C6_Witness ==
    /\ jpc = "returned"
    /\ params1 # params2
    /\ RatLess(RatInt(0), jresult[1])
    /\ RatLess(jresult[1], RatInt(1))

Malformed(p) == p.xmax < p.xmin \/ p.ymax < p.ymin
Area(p)      == (p.xmax - p.xmin) * (p.ymax - p.ymin)

\* C7: called with a malformed box (max < min on either operand) the
\* function fails and returns no value, so that every value it returns
\* lies in [0, 1].
C7_MalformedRejected ==
    /\ (Finished /\ (Malformed(params1) \/ Malformed(params2))) =>
           jpc # "returned"
    /\ jpc = "returned" =>
           /\ RatLeq(RatInt(0), jresult[1])
           /\ RatLeq(jresult[1], RatInt(1))

\* C8: for well-formed boxes of which at least one has zero area the call
\* returns 0 and does not raise.
C8_ZeroAreaYieldsZero ==
    ( /\ Finished
      /\ ~Malformed(params1) /\ ~Malformed(params2)
      /\ (Area(params1) = 0 \/ Area(params2) = 0) ) =>
        /\ jpc = "returned"
        /\ jresult = Some(RatInt(0))

-----------------------------------------------------------------------------
(* Claims about compute_overlap (MatchSpec) *)

\* the overlap of the box with anchor n (counted from 0)
OverlapAt(n) == JaccardOf(box, manchors, n).value
Indices      == 0..(Len(manchors) - 1)

\* C4: best is absent exactly when every anchor has zero overlap with the
\* box; otherwise best is Score(i, o), o the maximum overlap over all
\* anchors and i the smallest index attaining it.
C4_BestIsFirstMaximum ==
    mpc = "returned" =>
        /\ best = None <=> \A n \in Indices : OverlapAt(n) = RatInt(0)
        /\ best # None =>
              /\ best[1].idx \in Indices
              /\ best[1].score = OverlapAt(best[1].idx)
              /\ \A n \in Indices : RatLeq(OverlapAt(n), best[1].score)
              /\ \A n \in Indices :
                    OverlapAt(n) = best[1].score => best[1].idx <= n

C4_Witness ==
    /\ mpc = "returned"
    /\ best # None
    /\ \E n \in Indices : n > best[1].idx /\ OverlapAt(n) = best[1].score
    /\ \E n \in Indices : n < best[1].idx /\ OverlapAt(n) # RatInt(0)

\* good lists, by ascending index and with its overlap, exactly the anchors
\* that satisfy Wanted
GoodIsExactly(Wanted(_)) ==
    /\ \A q \in 1..Len(good) :
          /\ good[q].idx \in Indices
          /\ good[q].score = OverlapAt(good[q].idx)
          /\ Wanted(good[q].idx)
    /\ \A q \in 1..(Len(good) - 1) : good[q].idx < good[q + 1].idx
    /\ \A n \in Indices : Wanted(n) => \E q \in 1..Len(good) : good[q].idx = n

ExceedsThreshold(n) == RatLess(threshold, OverlapAt(n))
NonZeroAndExceedsThreshold(n) ==
    OverlapAt(n) # RatInt(0) /\ RatLess(threshold, OverlapAt(n))

\* C5 as claimed: good holds, in ascending index order, a Score for every
\* anchor whose overlap strictly exceeds the threshold and for no other.
C5_GoodIsAllAboveThreshold ==
    mpc = "returned" => GoodIsExactly(ExceedsThreshold)

\* C5 as amended: good holds, in ascending index order, a Score for every
\* anchor whose overlap is non-zero and strictly exceeds the threshold and
\* for no other; an overlap equal to the threshold is excluded.
C5_GoodIsNonZeroAboveThreshold ==
    mpc = "returned" => GoodIsExactly(NonZeroAndExceedsThreshold)

C5_Witness ==
    /\ mpc = "returned"
    /\ Len(good) >= 2
    /\ \E n \in Indices : OverlapAt(n) = threshold
    /\ \E n \in Indices : OverlapAt(n) = RatInt(0)

\* C10: for any threshold, every entry of good has a non-zero overlap, and
\* when good is not empty best is present, is at least every score in good,
\* and the entry of best's anchor is in good.
C10_GoodWithinBest ==
    mpc = "returned" =>
        /\ \A q \in 1..Len(good) : good[q].score # RatInt(0)
        /\ good # <<>> =>
              /\ best # None
              /\ \A q \in 1..Len(good) : RatLeq(good[q].score, best[1].score)
              /\ \E q \in 1..Len(good) : good[q] = best[1]

C10_Witness ==
    /\ mpc = "returned"
    /\ RatLess(threshold, RatInt(0))
    /\ Len(good) >= 2
    /\ good[1] # best[1]
    /\ \E n \in Indices : OverlapAt(n) = RatInt(0)

====
